---- MODULE Spec2Model ----
(***************************************************************************)
(* Thermocline detection of SeabirdCode (src/seabird/thermocline.py).      *)
(*                                                                         *)
(* Two state machines share the module:                                    *)
(*   Spec     a thermocline_segmentation instance that is constructed and  *)
(*            whose detect is called on a profile, possibly repeatedly;    *)
(*   SpecEns  thermocline.detect, the ensemble that runs the segmentation, *)
(*            HMM and threshold strategies inside one try block each.      *)
(*                                                                         *)
(* Conventions.  Python's None is the empty tuple <<>> and a value v is    *)
(* <<v>>.  Python lists are sequences; a Python index i is position i+1.   *)
(* Floats are exact rationals <<numerator, denominator>>, denominator > 0. *)
(***************************************************************************)
EXTENDS Integers, Sequences, FiniteSets, TLC

VARIABLES
    config,      \* the configuration dictionary
    data,        \* the profile, with what the external engines return on it
    inst,        \* the fields of the thermocline_segmentation instance
    calls,       \* number of detect calls made on inst
    last,        \* outcome of the latest detect call on inst
    pc,          \* position of thermocline.detect
    methods,     \* the methods argument of the running thermocline.detect
    saveModel,   \* the saveModel argument of the running thermocline.detect
    features,    \* the local dictionary features of thermocline.detect
    models,      \* self.models of the thermocline object
    attempted,   \* the strategies whose try block was entered, in order
    failed,      \* the strategies whose try block raised
    prev         \* the record returned by the previous thermocline.detect

vars == <<config, data, inst, calls, last, pc, methods, saveModel, features,
          models, attempted, failed, prev>>

segVars == <<inst, calls, last>>
ensVars == <<pc, methods, saveModel, features, models, attempted, failed, prev>>

---------------------------------------------------------------------------
(* Bounds of the model. *)

\* longest generated profile (number of samples)
MaxLen == 6
\* most detect calls made on one thermocline_segmentation instance
MaxCalls == 2
\* longest generated profile handed to the ensemble
EnsMaxLen == 4

---------------------------------------------------------------------------
(* Python values. *)

None == <<>>
Some(v) == <<v>>

\* seq[i] of Python, i >= 0
At(seq, i) == seq[i + 1]
\* seq[-k] of Python, k >= 1
FromEnd(seq, k) == seq[Len(seq) - k + 1]

(* Exact rationals standing for Python floats. *)
RLess(a, b) == a[1] * b[2] < b[1] * a[2]
REq(a, b) == a[1] * b[2] = b[1] * a[2]
RAbs(a) == <<IF a[1] < 0 THEN -a[1] ELSE a[1], a[2]>>
RNeg(a) == <<-a[1], a[2]>>

---------------------------------------------------------------------------
(* The inputs: configurations, profiles and fitted segment lists. *)

\* config["Algorithm"]["segment"] and config["Preprocessing"]["Interval"]
Configs ==
    { [Interval |-> iv, stable_gradient |-> c[1], stable_gradient2 |-> c[2],
       minTRM_gradient |-> c[3]] :
        iv \in {1, 2},
        c \in { << <<1, 2>>, <<3, 2>>, <<2, 1>> >>,
                << <<3, 1>>, <<4, 1>>, <<1, 2>> >> } }

\* temperature steps (per sample) of the fitted lines
Slopes == {-2, 0, 1, 2, 3, 5}

\* data.Depth of a profile of n samples, spaced by step
DepthOf(n, step) == [i \in 1..n |-> (i - 1) * step]

\* a segment [fitted line, point index]: k points from index first, the line
\* falling by s per sample from temp
Segment(first, k, temp, s) ==
    [line |-> [j \in 1..k |-> temp - (j - 1) * s],
     idx |-> [j \in 1..k |-> first + j - 1]]

\* the segment lists bottomUp can hand back for samples first..n-1: contiguous
\* segments of at least two points each that partition the index range
RECURSIVE Fits(_, _, _, _)
Fits(first, n, temp, slopes) ==
    IF first = n THEN {<<>>}
    ELSE UNION { { <<Segment(first, k, temp, s)>> \o rest :
                     rest \in Fits(first + k, n, temp - (k - 1) * s, slopes) } :
                 <<k, s>> \in (2..(n - first)) \X slopes }

\* a profile: its depths, the segment list the fitting engine returns on its
\* temperatures (or the engine raising), and what the HMM and threshold
\* engines return on it (None: the engine raises)
Profile(n, step, f, fr, h, t) ==
    [Depth |-> DepthOf(n, step), fit |-> f, fitRaises |-> fr, hmm |-> h, thr |-> t]

\* Scenario A: depth 0..10, flat 20 on 0-3, 20 to 10 on 4-6, flat 10 on 7-10
ScenarioA ==
    Profile(11, 1, << Segment(0, 4, 20, 0), Segment(4, 3, 20, 5),
                      Segment(7, 4, 10, 0) >>, FALSE, None, None)

ScenarioAConfig ==
    [Interval |-> 1, stable_gradient |-> <<1, 2>>, stable_gradient2 |-> <<3, 2>>,
     minTRM_gradient |-> <<2, 1>>]

Profiles ==
    UNION { { Profile(n, step, f, FALSE, None, None) : f \in Fits(0, n, 20, Slopes) } :
            <<n, step>> \in (2..MaxLen) \X {1, 2} }
    \cup {ScenarioA}

\* what the HMM or threshold engine returns on a profile of n samples: it
\* raises (None), or yields the indices of TRM, LEP and UHY, the last of
\* which may lie outside the signal series
EngineResults(n) == {None, Some(<<1, 0, n - 1>>), Some(<<0, 1, n>>)}

EnsProfiles ==
    UNION { { Profile(n, step, f, FALSE, h, t) :
                f \in Fits(0, n, 20, {0, 3}), h \in EngineResults(n),
                t \in EngineResults(n) } :
            <<n, step>> \in (2..EnsMaxLen) \X {1, 2} }
    \cup { Profile(2, 1, <<>>, TRUE, h, t) :
              h \in EngineResults(2), t \in EngineResults(2) }

\* the values of the methods argument: every subset of the three strategy
\* names in every order
Strategies == {"segmentation", "HMM", "threshold"}
MethodLists ==
    UNION { { m \in [1..k -> Strategies] :
                \A i, j \in 1..k : i # j => m[i] # m[j] } : k \in 0..3 }

---------------------------------------------------------------------------
(* class thermocline_segmentation *)

\* thermocline_base.__init__ and thermocline_segmentation.__init__
NewSegmentation ==
    [TRM |-> None, LEP |-> None, UHY |-> None, TRM_gradient |-> None,
     num_segments |-> None, num_belowTRM |-> None, model |-> None,
     positiveSeg |-> <<>>, doubleTRM |-> <<>>, gradient |-> <<>>,
     TRM_idx |-> None]

\* a slip: the fall over the whole segment, (seg[0][0]-seg[0][-1])/interval
getGradientFromSegment_Whole(seg, depthInterval) ==
    << At(seg.line, 0) - FromEnd(seg.line, 1), depthInterval >>

\* (seg[0][0]-seg[0][1])/self.depthInterval
getGradientFromSegment(seg, depthInterval) ==
    << At(seg.line, 0) - At(seg.line, 1), depthInterval >>

\* [self.getGradientFromSegment(seg) for seg in model.segmentList]
Gradients(segmentList, cfg) ==
    [i \in 1..Len(segmentList) |->
        getGradientFromSegment(segmentList[i], cfg.Interval)]

\* np.argmax of a non-empty list: the first index of the largest value
argmax(g) ==
    CHOOSE i \in 0..(Len(g) - 1) :
        /\ \A j \in 0..(Len(g) - 1) : ~RLess(At(g, i), At(g, j))
        /\ \A j \in 0..(i - 1) : RLess(At(g, j), At(g, i))

\* range(a, b) of Python as a list
Range(a, b) == [k \in 1..(b - a) |-> a + k - 1]

RECURSIVE SumSeq(_)
SumSeq(s) == IF s = <<>> THEN 0 ELSE Head(s) + SumSeq(Tail(s))

\* depth span below which a leading max-gradient segment counts as noise
NoiseSpan == 2

\* a slip: <= 2 for < 2
NoiseGuardFires_Inclusive(segmentList, Depth, cfg) ==
    LET gradient == Gradients(segmentList, cfg)
        maxGradient_index == argmax(gradient)
        tmpDepth == [j \in 1..Len(At(segmentList, maxGradient_index).idx) |->
                        At(Depth, At(segmentList, maxGradient_index).idx[j])]
    IN  /\ maxGradient_index = 0
        /\ FromEnd(tmpDepth, 1) - At(tmpDepth, 0) <= NoiseSpan

\* the test of the noise guard
NoiseGuardFires(segmentList, Depth, cfg) ==
    LET gradient == Gradients(segmentList, cfg)
        maxGradient_index == argmax(gradient)
        tmpDepth == [j \in 1..Len(At(segmentList, maxGradient_index).idx) |->
                        At(Depth, At(segmentList, maxGradient_index).idx[j])]
    IN  /\ maxGradient_index = 0
        /\ FromEnd(tmpDepth, 1) - At(tmpDepth, 0) < NoiseSpan

\* the noise guard: model.segmentList.pop(0) when the test holds
NoiseGuard(segmentList, Depth, cfg) ==
    IF NoiseGuardFires(segmentList, Depth, cfg) THEN Tail(segmentList)
    ELSE segmentList

\* the TRM gate
GatePasses(gradient, maxGradient_index, cfg) ==
    RLess(cfg.minTRM_gradient, At(gradient, maxGradient_index))

\* a slip: int(round(np.mean(...))), a half going up
TRMIndex_Rounded(idx) == (2 * SumSeq(idx) + Len(idx)) \div (2 * Len(idx))

\* int(np.mean(segmentList[maxGradient_index][1]))
TRMIndex(idx) == SumSeq(idx) \div Len(idx)

\* a slip: the stable_gradient2 test placed before the stable_gradient test
LEPIndex_Swapped(segmentList, gradient, maxGradient_index, cfg) ==
    IF maxGradient_index = 0 THEN None
    ELSE IF RLess(cfg.stable_gradient2, RAbs(At(gradient, 0))) THEN None
    ELSE IF RLess(RAbs(At(gradient, 1)), cfg.stable_gradient)
         THEN Some(FromEnd(At(segmentList, 1).idx, 1))
    ELSE Some(FromEnd(At(segmentList, 0).idx, 1))

\* a slip: the test for the max-gradient segment being the first left out
LEPIndex_Unguarded(segmentList, gradient, maxGradient_index, cfg) ==
    IF Len(gradient) >= 2 /\ RLess(RAbs(At(gradient, 1)), cfg.stable_gradient)
    THEN Some(FromEnd(At(segmentList, 1).idx, 1))
    ELSE IF RLess(cfg.stable_gradient2, RAbs(At(gradient, 0))) THEN None
    ELSE Some(FromEnd(At(segmentList, 0).idx, 1))

\* LEP_index
LEPIndex(segmentList, gradient, maxGradient_index, cfg) ==
    IF maxGradient_index = 0 THEN None
    ELSE IF RLess(RAbs(At(gradient, 1)), cfg.stable_gradient)
         THEN Some(FromEnd(At(segmentList, 1).idx, 1))
    ELSE IF RLess(cfg.stable_gradient2, RAbs(At(gradient, 0))) THEN None
    ELSE Some(FromEnd(At(segmentList, 0).idx, 1))

\* UHY_index
UHYIndex(segmentList, gradient, maxGradient_index, cfg) ==
    IF maxGradient_index = Len(gradient) - 1 THEN None
    ELSE IF RLess(RAbs(FromEnd(gradient, 2)), cfg.stable_gradient)
         THEN Some(At(FromEnd(segmentList, 2).idx, 0))
    ELSE IF RLess(cfg.stable_gradient2, RAbs(FromEnd(gradient, 1))) THEN None
    ELSE Some(At(FromEnd(segmentList, 1).idx, 0))

\* the three-way gradient pattern of a double thermocline at segment i
DoublePattern(segmentList, i, cfg) ==
    LET segGradient == getGradientFromSegment(At(segmentList, i), cfg.Interval)
        previousSegGradient == getGradientFromSegment(At(segmentList, i - 1), cfg.Interval)
        nextSegGradient == getGradientFromSegment(At(segmentList, i + 1), cfg.Interval)
    IN  /\ RLess(RAbs(segGradient), cfg.stable_gradient)
        /\ RLess(cfg.minTRM_gradient, previousSegGradient)
        /\ RLess(cfg.stable_gradient, nextSegGradient)

\* self.doubleTRM after detectDoubleTRM(segmentList)
detectDoubleTRM(doubleTRM, segmentList, cfg) ==
    doubleTRM \o SelectSeq(Range(1, Len(segmentList) - 1),
                           LAMBDA i : DoublePattern(segmentList, i, cfg))

\* self.positiveSeg after detectPositiveGradient(segmentList)
detectPositiveGradient(segmentList, cfg) ==
    SelectSeq(Range(0, Len(segmentList)),
              LAMBDA i : RLess(getGradientFromSegment(At(segmentList, i), cfg.Interval),
                               RNeg(cfg.stable_gradient)))

\* thermocline_segmentation.detect raises: the fitting engine raises, or
\* np.argmax is handed the empty list the noise guard left
detectRaises(d, cfg) ==
    \/ d.fitRaises
    \/ NoiseGuard(d.fit, d.Depth, cfg) = <<>>

\* the instance after a detect call that does not raise
detectFields(self, d, cfg, save) ==
    LET segmentList == NoiseGuard(d.fit, d.Depth, cfg)
        gradient == Gradients(segmentList, cfg)
        maxGradient_index == argmax(gradient)
        pass == GatePasses(gradient, maxGradient_index, cfg)
        LEP_index == LEPIndex(segmentList, gradient, maxGradient_index, cfg)
        UHY_index == UHYIndex(segmentList, gradient, maxGradient_index, cfg)
    IN  [self EXCEPT
            !.gradient = gradient,
            !.TRM = IF pass
                    THEN Some(At(d.Depth, TRMIndex(At(segmentList, maxGradient_index).idx)))
                    ELSE @,
            !.LEP = IF pass /\ LEP_index # None
                    THEN Some(At(d.Depth, LEP_index[1])) ELSE @,
            !.UHY = IF pass /\ UHY_index # None
                    THEN Some(At(d.Depth, UHY_index[1])) ELSE @,
            !.TRM_gradient = Some(At(gradient, argmax(gradient))),
            !.num_segments = Some(Len(segmentList)),
            !.TRM_idx = Some(maxGradient_index),
            !.doubleTRM = detectDoubleTRM(@, segmentList, cfg),
            !.positiveSeg = detectPositiveGradient(segmentList, cfg),
            !.model = IF save THEN Some(segmentList) ELSE @]

\* thermocline_segmentation.detect: the instance afterwards, whether the call
\* raised, and the local segmentList at its end
detect(self, d, cfg, save) ==
    IF detectRaises(d, cfg)
    THEN [self |-> self, raised |-> TRUE,
          segmentList |-> IF d.fitRaises THEN <<>> ELSE NoiseGuard(d.fit, d.Depth, cfg)]
    ELSE [self |-> detectFields(self, d, cfg, save), raised |-> FALSE,
          segmentList |-> NoiseGuard(d.fit, d.Depth, cfg)]

NoCall == [raised |-> FALSE, segmentList |-> <<>>, fresh |-> FALSE]

---------------------------------------------------------------------------
(* The thermocline_segmentation instance under repeated detect calls. *)

EnsIdle ==
    /\ pc = "idle" /\ methods = <<>> /\ saveModel = FALSE
    /\ features = << >> /\ models = None /\ attempted = <<>> /\ failed = {}
    /\ prev = None

Init ==
    /\ config \in Configs
    /\ data \in Profiles
    /\ inst = NewSegmentation
    /\ calls = 0
    /\ last = NoCall
    /\ EnsIdle

\* model = thermocline_segmentation(config)
Construct ==
    /\ calls > 0
    /\ inst' = NewSegmentation
    /\ calls' = 0
    /\ last' = NoCall
    /\ UNCHANGED <<config, data, ensVars>>

\* model.detect(data, saveModel = save)
Detect ==
    /\ calls < MaxCalls
    /\ \E save \in BOOLEAN :
        LET r == detect(inst, data, config, save)
        IN  /\ inst' = r.self
            /\ last' = [raised |-> r.raised, segmentList |-> r.segmentList,
                        fresh |-> (calls = 0)]
    /\ calls' = calls + 1
    /\ UNCHANGED <<config, data, ensVars>>

Next == Construct \/ Detect

Spec == Init /\ [][Next]_vars

---------------------------------------------------------------------------
(* class thermocline: the ensemble *)

\* "x" in methods
InList(x, list) == \E i \in 1..Len(list) : list[i] = x

\* features[k] = v
Put(f, k, v) == [x \in (DOMAIN f) \cup {k} |-> IF x = k THEN v ELSE f[x]]

SegmentKeys ==
    {"TRM_segment", "LEP_segment", "UHY_segment", "TRM_gradient_segment",
     "TRM_num_segment"}
HMMKeys == {"TRM_HMM", "LEP_HMM", "UHY_HMM"}
ThresholdKeys == {"TRM_threshold", "LEP_threshold", "UHY_threshold"}

\* features after the initialisation loop of thermocline.detect
InitFeatures == [k \in SegmentKeys \cup HMMKeys \cup ThresholdKeys |-> None]

\* the body of the segmentation try block up to the diagnostic reads
segmentationCopied(f, model) ==
    LET f1 == Put(f, "TRM_gradient_segment", model.TRM_gradient)
        f2 == Put(f1, "TRM_segment", model.TRM)
        f3 == Put(f2, "LEP_segment", model.LEP)
        f4 == Put(f3, "UHY_segment", model.UHY)
        f5 == Put(f4, "TRM_num_segment", model.num_segments)
        f6 == Put(f5, "TRM_idx", model.TRM_idx)
        f7 == Put(f6, "doubleTRM", Some(Len(model.doubleTRM)))
        f8 == Put(f7, "positiveGradient", Some(Len(model.positiveSeg)))
        f9 == Put(f8, "firstSegmentGradient", Some(At(model.gradient, 0)))
    IN  Put(f9, "lastSegmentGradient", Some(FromEnd(model.gradient, 1)))

\* the segmentation try block: features and self.models afterwards, and
\* whether it raised
segmentationBlock(f, mods, d, cfg, save) ==
    LET r == detect(NewSegmentation, d, cfg, save)
        model == r.self
    IN  IF r.raised THEN [features |-> f, models |-> mods, raised |-> TRUE]
        ELSE IF Len(model.gradient) < 2
        THEN [features |-> segmentationCopied(f, model), models |-> mods,
              raised |-> TRUE]
        ELSE [features |-> Put(segmentationCopied(f, model),
                               "lastButTwoSegmentGradient",
                               Some(FromEnd(model.gradient, 2))),
              models |-> IF save THEN model.model ELSE mods,
              raised |-> FALSE]

\* signal_data.Depth of extractSignalFeatures(data, "Temperature")
signalDepth(d) == d.Depth

\* thermocline_HMM.detect and thermocline_threshold.detect on the indices res
\* the engine returned: the depths of TRM, LEP and UHY, or None when the
\* engine or a lookup of signal_data.Depth raises
wrapperDetect(d, res) ==
    IF res = None THEN None
    ELSE IF \E i \in 1..3 : res[1][i] >= Len(signalDepth(d)) THEN None
    ELSE Some([i \in 1..3 |-> At(signalDepth(d), res[1][i])])

\* the HMM and the threshold try block, writing the keys of suffix
wrapperBlock(f, d, res, suffix) ==
    LET out == wrapperDetect(d, res)
    IN  IF out = None THEN [features |-> f, raised |-> TRUE]
        ELSE [features |-> Put(Put(Put(f, "TRM_" \o suffix, Some(out[1][1])),
                                   "LEP_" \o suffix, Some(out[1][2])),
                               "UHY_" \o suffix, Some(out[1][3])),
              raised |-> FALSE]

\* the order of the three if-blocks of thermocline.detect
FirstStrategy == "segmentation"

\* a slip: the threshold block placed before the HMM block
NextStrategy_Reordered(p) ==
    CASE p = "segmentation" -> "threshold"
      [] p = "threshold" -> "HMM"
      [] p = "HMM" -> "return"

NextStrategy(p) ==
    CASE p = "segmentation" -> "HMM"
      [] p = "HMM" -> "threshold"
      [] p = "threshold" -> "return"

\* a slip: one try block around all three strategies, so that a failure
\* skips the strategies after it
AfterBlock_SkipRest(raised, p) == IF raised THEN "return" ELSE NextStrategy(p)

\* except Exception: where control goes after a try block
AfterBlock(raised, p) == NextStrategy(p)

InitEns ==
    /\ config \in { c \in Configs : c.Interval = 1 }
    /\ data \in EnsProfiles
    /\ inst = NewSegmentation
    /\ calls = 0
    /\ last = NoCall
    /\ EnsIdle

\* thermocline.detect is entered: the arguments and the initialised features
Call ==
    /\ pc = "idle"
    /\ \E m \in MethodLists, save \in BOOLEAN :
        /\ methods' = m
        /\ saveModel' = save
    /\ features' = InitFeatures
    /\ attempted' = <<>>
    /\ failed' = {}
    /\ pc' = FirstStrategy
    /\ UNCHANGED <<config, data, segVars, models, prev>>

\* if "segmentation" in methods: try ... except
TrySegmentation ==
    /\ pc = "segmentation"
    /\ IF InList("segmentation", methods)
       THEN LET r == segmentationBlock(features, models, data, config, saveModel)
            IN  /\ features' = r.features
                /\ models' = r.models
                /\ attempted' = Append(attempted, "segmentation")
                /\ failed' = IF r.raised THEN failed \cup {"segmentation"} ELSE failed
                /\ pc' = AfterBlock(r.raised, pc)
       ELSE /\ pc' = NextStrategy(pc)
            /\ UNCHANGED <<features, models, attempted, failed>>
    /\ UNCHANGED <<config, data, segVars, methods, saveModel, prev>>

\* if "HMM" in methods: try ... except
TryHMM ==
    /\ pc = "HMM"
    /\ IF InList("HMM", methods)
       THEN LET r == wrapperBlock(features, data, data.hmm, "HMM")
            IN  /\ features' = r.features
                /\ attempted' = Append(attempted, "HMM")
                /\ failed' = IF r.raised THEN failed \cup {"HMM"} ELSE failed
                /\ pc' = AfterBlock(r.raised, pc)
       ELSE /\ pc' = NextStrategy(pc)
            /\ UNCHANGED <<features, attempted, failed>>
    /\ UNCHANGED <<config, data, segVars, methods, saveModel, models, prev>>

\* if "threshold" in methods: try ... except
TryThreshold ==
    /\ pc = "threshold"
    /\ IF InList("threshold", methods)
       THEN LET r == wrapperBlock(features, data, data.thr, "threshold")
            IN  /\ features' = r.features
                /\ attempted' = Append(attempted, "threshold")
                /\ failed' = IF r.raised THEN failed \cup {"threshold"} ELSE failed
                /\ pc' = AfterBlock(r.raised, pc)
       ELSE /\ pc' = NextStrategy(pc)
            /\ UNCHANGED <<features, attempted, failed>>
    /\ UNCHANGED <<config, data, segVars, methods, saveModel, models, prev>>

\* return features
Return ==
    /\ pc = "return"
    /\ pc' = "returned"
    /\ UNCHANGED <<config, data, segVars, methods, saveModel, features, models,
                   attempted, failed, prev>>

\* the caller keeps the returned record and calls detect again on the same
\* profile with "segmentation" left out of methods
CallWithout ==
    /\ pc = "returned"
    /\ prev = None
    /\ InList("segmentation", methods)
    /\ prev' = Some([methods |-> methods, features |-> features, failed |-> failed])
    /\ methods' = SelectSeq(methods, LAMBDA x : x # "segmentation")
    /\ features' = InitFeatures
    /\ attempted' = <<>>
    /\ failed' = {}
    /\ pc' = FirstStrategy
    /\ UNCHANGED <<config, data, segVars, saveModel, models>>

\* thermocline.__init__: the caller starts over with a new thermocline object
NewThermocline ==
    /\ pc = "returned"
    /\ pc' = "idle"
    /\ methods' = <<>>
    /\ saveModel' = FALSE
    /\ features' = << >>
    /\ models' = None
    /\ attempted' = <<>>
    /\ failed' = {}
    /\ prev' = None
    /\ UNCHANGED <<config, data, segVars>>

NextEns ==
    \/ Call
    \/ TrySegmentation
    \/ TryHMM
    \/ TryThreshold
    \/ Return
    \/ CallWithout
    \/ NewThermocline

SpecEns == InitEns /\ [][NextEns]_vars

---------------------------------------------------------------------------
(* Properties of thermocline_segmentation.detect, checked under Spec. *)

\* a detect call on a freshly constructed instance has finished
FreshCallDone == calls = 1 /\ last.fresh
\* ... and did not raise
FreshCallOk == FreshCallDone /\ ~last.raised

\* the gradient of segment i (from 0) of the list detect worked on
GradientAt(i) == << At(At(last.segmentList, i).line, 0) - At(At(last.segmentList, i).line, 1),
                    config.Interval >>
\* the depth spanned by a segment
SpanOf(seg) == At(data.Depth, FromEnd(seg.idx, 1)) - At(data.Depth, At(seg.idx, 0))
\* the leading segment of list l bears the largest gradient and spans < 2
LeadingNoise(l) ==
    /\ l # <<>>
    /\ \A j \in 1..Len(l) :
          l[1].line[1] - l[1].line[2] >= l[j].line[1] - l[j].line[2]
    /\ SpanOf(l[1]) < 2
\* the TRM gate passed in the latest call
GatePassed ==
    /\ last.segmentList # <<>>
    /\ \E i \in 0..(Len(last.segmentList) - 1) :
          RLess(config.minTRM_gradient, GradientAt(i))
\* the segment with the largest gradient (the first of them) of the list
\* detect worked on
MaxSegment ==
    CHOOSE i \in 0..(Len(last.segmentList) - 1) :
        /\ \A j \in 0..(Len(last.segmentList) - 1) :
              ~RLess(GradientAt(i), GradientAt(j))
        /\ \A j \in 0..(i - 1) : RLess(GradientAt(j), GradientAt(i))

(* C3: gate property.  For every segment list of length >= 1 handed back by
   the fitting engine, if no gradient of the list, and so none of the
   (possibly noise-guard-reduced) list, exceeds minTRM_gradient, detect on a
   fresh instance finishes without raising and leaves TRM, LEP and UHY
   None. *)
C3_GateNoException ==
    (/\ FreshCallDone
     /\ Len(data.fit) >= 1
     /\ \A j \in 1..Len(data.fit) :
           ~RLess(config.minTRM_gradient,
                  << data.fit[j].line[1] - data.fit[j].line[2], config.Interval >>)
     /\ ~GatePassed)
        => (~last.raised /\ inst.TRM = None /\ inst.LEP = None /\ inst.UHY = None)

(* C4 as stated: when the gate passes, TRM is the depth at index
   round((i0+i1)/2) of the max-gradient segment's index range [i0..i1],
   whether round takes a half away from zero (Python 2) or to the even
   neighbour (numpy). *)
C4_RoundedMidpoint ==
    (FreshCallOk /\ GatePassed) =>
        LET idx == At(last.segmentList, MaxSegment).idx
            i0 == At(idx, 0)
            i1 == FromEnd(idx, 1)
            halfUp == (i0 + i1 + 1) \div 2
            halfEven == IF (i0 + i1) % 2 = 0 THEN (i0 + i1) \div 2
                        ELSE IF ((i0 + i1 - 1) \div 2) % 2 = 0
                             THEN (i0 + i1 - 1) \div 2 ELSE (i0 + i1 + 1) \div 2
        IN  inst.TRM \in {Some(At(data.Depth, halfUp)), Some(At(data.Depth, halfEven))}

(* C4 amended: when the gate passes, TRM is the depth at index
   floor((i0+i1)/2): the midpoint truncated, which is i0+i1 halved for an
   odd-length range and the lower of the two middle indices for an even-length
   range. *)
C4_TruncatedMidpoint ==
    (FreshCallOk /\ GatePassed) =>
        LET idx == At(last.segmentList, MaxSegment).idx
            i0 == At(idx, 0)
            i1 == FromEnd(idx, 1)
        IN  inst.TRM = Some(At(data.Depth, (i0 + i1) \div 2))

\* the gate passed on a max-gradient segment of even length
C4_Witness ==
    /\ FreshCallOk /\ GatePassed
    /\ Len(At(last.segmentList, MaxSegment).idx) % 2 = 0
    /\ inst.TRM # None

(* C5 as stated: a leading segment spanning < 2 depth units with the maximum
   gradient is removed before the TRM segment is chosen, and applying the
   guard again to the reduced list leaves it unchanged, so that the segment
   selected as TRM is never a leading segment shorter than 2 depth units. *)
C5_GuardIdempotent ==
    FreshCallOk =>
        /\ LeadingNoise(data.fit) => last.segmentList = Tail(data.fit)
        /\ NoiseGuard(last.segmentList, data.Depth, config) = last.segmentList
        /\ (GatePassed /\ inst.TRM_idx = Some(0))
              => SpanOf(At(last.segmentList, 0)) >= 2

(* C5 amended: the guard runs once.  A leading segment spanning < 2 depth
   units with the maximum gradient is removed before the TRM segment is
   chosen and no other segment is; the guard applied again leaves the reduced
   list unchanged unless the new leading segment again spans < 2 depth units
   and bears the maximum gradient of the reduced list, and only then can the
   TRM segment be a leading segment shorter than 2 depth units (it is the
   second segment of the engine's list). *)
C5_GuardOnce ==
    FreshCallDone =>
        /\ last.segmentList = IF LeadingNoise(data.fit) THEN Tail(data.fit) ELSE data.fit
        /\ (~last.raised /\ ~LeadingNoise(last.segmentList))
              => /\ NoiseGuard(last.segmentList, data.Depth, config) = last.segmentList
                 /\ (GatePassed /\ inst.TRM_idx = Some(0))
                       => SpanOf(At(last.segmentList, 0)) >= 2
        /\ (~last.raised /\ GatePassed /\ inst.TRM_idx = Some(0)
              /\ SpanOf(At(last.segmentList, 0)) < 2)
              => (LeadingNoise(data.fit) /\ last.segmentList = Tail(data.fit))

\* the guard removed a leading noise segment and TRM was then detected
C5_Witness ==
    /\ FreshCallOk /\ GatePassed
    /\ LeadingNoise(data.fit)
    /\ Len(last.segmentList) = Len(data.fit) - 1
    /\ inst.TRM # None

(* C6: after any sequence of detect calls on an instance, the double-TRM
   count of the latest call, len(doubleTRM), is the number of interior
   segments i (1 <= i <= len-2) of that call's segment list with
   |gradient[i]| < stable_gradient, gradient[i-1] > minTRM_gradient and
   gradient[i+1] > stable_gradient. *)
C6_DoubleTRMCount ==
    (calls >= 1 /\ ~last.raised) =>
        Len(inst.doubleTRM) =
            Cardinality({ i \in 1..(Len(last.segmentList) - 2) :
                            /\ RLess(RAbs(GradientAt(i)), config.stable_gradient)
                            /\ RLess(config.minTRM_gradient, GradientAt(i - 1))
                            /\ RLess(config.stable_gradient, GradientAt(i + 1)) })

\* Scenario A has been run on a fresh instance
ScenarioARun == FreshCallOk /\ data = ScenarioA /\ config = ScenarioAConfig

(* C7 as stated: on Scenario A (depths 0..10, three segments, the middle one
   on indices 4-6 falling from 20 to 10, the outer ones flat, minTRM_gradient
   2, stable_gradient 0.5, stable_gradient2 1.5) the detector reports
   TRM_gradient 5, TRM 5, LEP 4 and UHY 6. *)
C7_ScenarioAStated ==
    ScenarioARun =>
        /\ inst.TRM_gradient # None /\ REq(inst.TRM_gradient[1], <<5, 1>>)
        /\ inst.TRM = Some(5) /\ inst.LEP = Some(4) /\ inst.UHY = Some(6)

(* C7 amended: on Scenario A the detector reports TRM_gradient 5, TRM 5,
   LEP 3 (the depth at the last index of the first segment, indices 0-3) and
   UHY 7 (the depth at the first index of the last segment, indices 7-10). *)
C7_ScenarioA ==
    ScenarioARun =>
        /\ inst.TRM_gradient # None /\ REq(inst.TRM_gradient[1], <<5, 1>>)
        /\ inst.TRM = Some(5) /\ inst.LEP = Some(3) /\ inst.UHY = Some(7)

\* Scenario A has been run and a thermocline was found
C7_Witness == ScenarioARun /\ inst.TRM # None /\ inst.num_segments = Some(3)

(* C9: when the TRM gate passes, LEP follows the first matching rule of:
   the max-gradient segment is segment 0 -> None; |gradient[1]| <
   stable_gradient -> depth at the last index of segment 1; |gradient[0]| >
   stable_gradient2 -> None; otherwise depth at the last index of segment 0;
   for every segment list of length >= 2, also when segment 1 of a
   two-segment list is the max-gradient segment. *)
C9_LEPRules ==
    (FreshCallOk /\ GatePassed /\ Len(last.segmentList) >= 2) =>
        inst.LEP =
            IF MaxSegment = 0 THEN None
            ELSE IF RLess(RAbs(GradientAt(1)), config.stable_gradient)
                 THEN Some(At(data.Depth, FromEnd(At(last.segmentList, 1).idx, 1)))
            ELSE IF RLess(config.stable_gradient2, RAbs(GradientAt(0))) THEN None
            ELSE Some(At(data.Depth, FromEnd(At(last.segmentList, 0).idx, 1)))

\* a two-segment list whose segment 1 is the max-gradient segment and stable:
\* LEP is the depth at the last index of segment 1
C9_Witness ==
    /\ FreshCallOk /\ GatePassed
    /\ Len(last.segmentList) = 2 /\ MaxSegment = 1
    /\ RLess(RAbs(GradientAt(1)), config.stable_gradient)
    /\ inst.LEP = Some(At(data.Depth, FromEnd(At(last.segmentList, 1).idx, 1)))

(* C10: on a fresh instance, for every configuration with minTRM_gradient >=
   stable_gradient > 0, a detected LEP is never deeper than TRM and a
   detected UHY never shallower than TRM. *)
C10_BoundaryOrder ==
    (FreshCallOk /\ ~RLess(config.minTRM_gradient, config.stable_gradient)
        /\ RLess(<<0, 1>>, config.stable_gradient)) =>
        /\ inst.LEP # None => (inst.TRM # None /\ inst.LEP[1] <= inst.TRM[1])
        /\ inst.UHY # None => (inst.TRM # None /\ inst.TRM[1] <= inst.UHY[1])

\* both boundaries were detected around the thermocline
C10_Witness ==
    /\ FreshCallOk /\ ~RLess(config.minTRM_gradient, config.stable_gradient)
    /\ inst.LEP # None /\ inst.UHY # None /\ inst.TRM # None
    /\ inst.LEP[1] < inst.TRM[1] /\ inst.TRM[1] < inst.UHY[1]

---------------------------------------------------------------------------
(* Properties of thermocline.detect, checked under SpecEns. *)

\* the call has returned its FeatureRecord (features)
Returned == pc = "returned"
\* the configured strategies in the order of the code
Configured ==
    SelectSeq(<<"segmentation", "HMM", "threshold">>, LAMBDA x : InList(x, methods))
IsPrefix(a, b) == Len(a) <= Len(b) /\ \A i \in 1..Len(a) : a[i] = b[i]

(* C1: isolation.  Whenever the segmentation try block raises, the call
   still returns a FeatureRecord (control goes on to the next strategy and
   to the return), and the HMM and threshold keys hold the values they hold in a run on the
   same profile with "segmentation" left out of methods. *)
C1_Isolation ==
    /\ ("segmentation" \in failed) => pc \in {"HMM", "threshold", "return", "returned"}
    /\ (Returned /\ prev # None /\ "segmentation" \in prev[1].failed) =>
          \A k \in HMMKeys \cup ThresholdKeys : features[k] = prev[1].features[k]

\* segmentation raised in the first run, and both runs returned HMM and
\* threshold depths
C1_Witness ==
    /\ Returned /\ prev # None /\ "segmentation" \in prev[1].failed
    /\ prev[1].features["TRM_HMM"] # None
    /\ prev[1].features["UHY_threshold"] # None
    /\ features["TRM_HMM"] # None

(* C2: for each of the three strategies, if its try block raises, every key
   of that strategy in the returned FeatureRecord still holds None. *)
C2_FailedKeysNone ==
    Returned =>
        /\ "segmentation" \in failed => \A k \in SegmentKeys : features[k] = None
        /\ "HMM" \in failed => \A k \in HMMKeys : features[k] = None
        /\ "threshold" \in failed => \A k \in ThresholdKeys : features[k] = None

(* C8: for every methods argument and every combination of success and
   failure, each configured strategy is attempted exactly once, in the order
   segmentation, HMM, threshold, no unconfigured strategy is attempted, and
   the record is returned only after the last configured strategy was
   attempted. *)
C8_FixedOrder ==
    /\ pc # "idle" => IsPrefix(attempted, Configured)
    /\ pc \in {"return", "returned"} => attempted = Configured

\* all three strategies were given in another order, one of them failed, and
\* the call returned
C8_Witness ==
    /\ Returned
    /\ methods = <<"threshold", "HMM", "segmentation">>
    /\ attempted = <<"segmentation", "HMM", "threshold">>
    /\ failed # {}

====
